---- MODULE Spec2Model ----
(***************************************************************************)
(* Model of the modal line editor in src/main.cpp (class Editor).          *)
(*                                                                         *)
(* Characters are their integer codes, a line (std::string) is a sequence  *)
(* of codes, the buffer (std::vector<std::string> content) is a sequence   *)
(* of lines.  C++ indices are 0-based, TLA+ sequences 1-based: line r of   *)
(* the code is content[r + 1] here.                                        *)
(*                                                                         *)
(* An editor state is a record st; every handler is an operator from a     *)
(* state to the SET of states it can produce: one state where the code is  *)
(* deterministic, several where it has undefined behaviour, none where a   *)
(* bound of the model stops the step.                                      *)
(***************************************************************************)
EXTENDS Integers, Sequences, FiniteSets, TLC

VARIABLES
    file_ok,      \* std::ifstream file(filename) opens
    file_bytes,   \* the bytes of the file named filename
    out_ok,       \* saveFile()'s std::ofstream opened
    max_y, max_x, \* getmaxyx(stdscr, max_y, max_x)
    content, copy_buffer, cursor_x, cursor_y, offset_x, offset_y, mode,
    ch,           \* the key run() read last
    pc,           \* "run" | "crashed" | "exited"
    saves         \* completed calls of saveFile()

vars == <<file_ok, file_bytes, out_ok, max_y, max_x, content, copy_buffer,
          cursor_x, cursor_y, offset_x, offset_y, mode, ch, pc, saves>>

-----------------------------------------------------------------------------
(* Bounds of the model *)

MaxLines == 2

MaxLineLen == 2

MaxFileLen == 2

MaxDim == 2

-----------------------------------------------------------------------------
(* Key codes *)

KEY_DOWN == 258

KEY_UP == 259

KEY_LEFT == 260

KEY_RIGHT == 261

KEY_BACKSPACE == 263

KEY_DEL == 127

KEY_ESC == 27

KEY_NL == 10

KEY_TAB == 9

KEY_q == 113

PERCENT == 37

KEY_i == 105

KEY_d == 100

KEY_y == 121

KEY_p == 112

KEY_o == 111

NO_KEY == 0 - 1

NORMAL == "NORMAL"

INSERT == "INSERT"

IsPrintable(c) == c >= 32 /\ c <= 126

\* Every key code the claims speak of.
Keys ==
    {KEY_UP, KEY_DOWN, KEY_LEFT, KEY_RIGHT, KEY_BACKSPACE, KEY_DEL, KEY_ESC,
     KEY_NL, KEY_TAB, KEY_q, KEY_i, KEY_d, KEY_y, KEY_p, KEY_o}

\* The keys the user of the model presses in Normal mode: every command, and
\* one key that is no command.
NormalKeys ==
    {KEY_UP, KEY_DOWN, KEY_LEFT, KEY_RIGHT, KEY_i, KEY_d, KEY_y, KEY_p, KEY_o,
     KEY_ESC, KEY_q}

\* The keys the user of the model presses in Insert mode: the text of the
\* model is written with one letter, and one key is no Insert-mode key.
InsertKeys == {KEY_ESC, KEY_BACKSPACE, KEY_NL, KEY_y, KEY_UP, KEY_q}

ModelKeys(m) == IF m = NORMAL THEN NormalKeys ELSE InsertKeys

\* The bytes a file on disk is made of in the model.
FileChars == {KEY_NL, KEY_y}

SeqsUpTo(S, n) == UNION {[1..k -> S] : k \in 0..n}

-----------------------------------------------------------------------------
(* std::string and std::vector operations *)

\* s.insert(pos, 1, c), for pos <= s.length()
StrInsert(s, pos, c) == SubSeq(s, 1, pos) \o <<c>> \o SubSeq(s, pos + 1, Len(s))

\* s.erase(pos, 1), for pos <= s.length(); erasing at the end removes nothing
StrErase(s, pos) == SubSeq(s, 1, pos) \o SubSeq(s, pos + 2, Len(s))

\* s.substr(pos), for pos <= s.length()
StrSubstr(s, pos) == SubSeq(s, pos + 1, Len(s))

\* s.substr(pos, n), for pos <= s.length(): clipped to the end of s
StrSubstrN(s, pos, n) == SubSeq(s, pos + 1, IF pos + n < Len(s) THEN pos + n ELSE Len(s))

\* s.substr(0, n)
StrPrefix(s, n) == SubSeq(s, 1, IF n < Len(s) THEN n ELSE Len(s))

\* v.insert(v.begin() + idx, x), for idx <= v.size()
VecInsert(v, idx, x) == SubSeq(v, 1, idx) \o <<x>> \o SubSeq(v, idx + 1, Len(v))

\* v.erase(v.begin() + idx), for idx < v.size()
VecErase(v, idx) == SubSeq(v, 1, idx) \o SubSeq(v, idx + 2, Len(v))

-----------------------------------------------------------------------------
(* Persistence *)

FirstNewline(b) ==
    IF \E i \in 1..Len(b) : b[i] = KEY_NL
    THEN CHOOSE i \in 1..Len(b) : b[i] = KEY_NL /\ \A j \in 1..(i - 1) : b[j] # KEY_NL
    ELSE 0

\* while (getline(file, line)) content.push_back(line);
RECURSIVE GetLines(_)
GetLines(b) ==
    IF b = <<>> THEN <<>>
    ELSE LET i == FirstNewline(b)
         IN  IF i = 0 THEN <<b>>
             ELSE <<SubSeq(b, 1, i - 1)>> \o GetLines(SubSeq(b, i + 1, Len(b)))

\* loadFile(): the content after it, from the constructor's empty vector
loadFile(ok, bytes) ==
    IF ok
    THEN IF GetLines(bytes) = <<>> THEN << <<>> >> ELSE GetLines(bytes)
    ELSE <<>>

\* WriteLines with the newline written between the lines only, not after the last.
RECURSIVE WriteLinesJoined(_)
WriteLinesJoined(v) ==
    IF v = <<>> THEN <<>>
    ELSE IF Len(v) = 1 THEN Head(v)
    ELSE Head(v) \o <<KEY_NL>> \o WriteLinesJoined(Tail(v))

\* for (const auto &line : content) file << line << "\n";
RECURSIVE WriteLines(_)
WriteLines(v) ==
    IF v = <<>> THEN <<>> ELSE Head(v) \o <<KEY_NL>> \o WriteLines(Tail(v))

-----------------------------------------------------------------------------
(* Editor states *)

Cur ==
    [content |-> content, copy_buffer |-> copy_buffer,
     cursor_x |-> cursor_x, cursor_y |-> cursor_y,
     offset_x |-> offset_x, offset_y |-> offset_y, mode |-> mode, pc |-> pc]

\* content[cursor_y] names an element of the vector
RowOK(st) == st.cursor_y < Len(st.content)

CurLine(st) == st.content[st.cursor_y + 1]

\* An uncaught std::out_of_range, or a fault: the process dies where it is.
Crash(st) == [st EXCEPT !.pc = "crashed"]

\* What an out-of-range read of a std::string can come back with.
GarbageLines == SeqsUpTo({KEY_y}, 1)

-----------------------------------------------------------------------------
(* handleNormalMode, one operator per case of the switch *)

\* cursor_y < content.size() - 1: the right side is unsigned, so it wraps
\* to the largest size_t when the vector is empty and the test is then true.
BelowLastRow(y, size) == IF size = 0 THEN TRUE ELSE y < size - 1

KeyUp(st) == {IF st.cursor_y > 0 THEN [st EXCEPT !.cursor_y = @ - 1] ELSE st}

KeyDown(st) ==
    IF BelowLastRow(st.cursor_y, Len(st.content))
    THEN IF st.cursor_y < MaxLines THEN {[st EXCEPT !.cursor_y = @ + 1]} ELSE {}
    ELSE {st}

KeyLeft(st) == {IF st.cursor_x > 0 THEN [st EXCEPT !.cursor_x = @ - 1] ELSE st}

KeyRight(st) ==
    IF RowOK(st)
    THEN {IF st.cursor_x < Len(CurLine(st)) THEN [st EXCEPT !.cursor_x = @ + 1] ELSE st}
    ELSE \* content[cursor_y] is past the end: the length read is undefined
         {Crash(st), st}
           \cup (IF st.cursor_x < MaxLineLen THEN {[st EXCEPT !.cursor_x = @ + 1]} ELSE {})

EnterInsert(st) == {[st EXCEPT !.mode = INSERT]}

\* DeleteLine with the size test of line 90 off by one: the last line is erased too.
DeleteLineErasesLast(st) ==
    IF Len(st.content) >= 1 /\ RowOK(st)
    THEN LET erased == VecErase(st.content, st.cursor_y)
         IN  {[st EXCEPT !.content = erased,
                         !.cursor_y = IF @ >= Len(erased) /\ @ > 0 THEN @ - 1 ELSE @,
                         !.cursor_x = 0]}
    ELSE {Crash(st), [st EXCEPT !.cursor_x = 0]}

\* DeleteLine without the decrement of line 92: the row stays past the end
\* when the last line is erased.
DeleteLineKeepsRow(st) ==
    IF Len(st.content) > 1
    THEN IF RowOK(st)
         THEN {[st EXCEPT !.content = VecErase(st.content, st.cursor_y),
                         !.cursor_x = 0]}
         ELSE {Crash(st), [st EXCEPT !.cursor_x = 0]}
    ELSE IF Len(st.content) = 1
         THEN {[st EXCEPT !.content = << <<>> >>, !.cursor_x = 0]}
         ELSE {Crash(st), [st EXCEPT !.cursor_x = 0]}

DeleteLine(st) ==
    IF Len(st.content) > 1
    THEN IF RowOK(st)
         THEN LET erased == VecErase(st.content, st.cursor_y)
              IN  {[st EXCEPT !.content = erased,
                              !.cursor_y = IF @ >= Len(erased) THEN @ - 1 ELSE @,
                              !.cursor_x = 0]}
         ELSE \* erase past the end: undefined
              {Crash(st), [st EXCEPT !.cursor_x = 0]}
    ELSE IF Len(st.content) = 1
         THEN {[st EXCEPT !.content = << <<>> >>, !.cursor_x = 0]}
         ELSE \* content[0] of an empty vector: undefined
              {Crash(st), [st EXCEPT !.cursor_x = 0]}

\* CopyLine reading row 0 in place of the cursor's row of line 99.
CopyLineFirstRow(st) ==
    IF RowOK(st)
    THEN {[st EXCEPT !.copy_buffer = st.content[1]]}
    ELSE {Crash(st)} \cup {[st EXCEPT !.copy_buffer = g] : g \in GarbageLines}

CopyLine(st) ==
    IF RowOK(st)
    THEN {[st EXCEPT !.copy_buffer = CurLine(st)]}
    ELSE \* content[cursor_y] is past the end: undefined
         {Crash(st)} \cup {[st EXCEPT !.copy_buffer = g] : g \in GarbageLines}

\* content.insert(content.begin() + cursor_y + 1, line); cursor_y++;
InsertLineBelow(st, line) ==
    IF RowOK(st)
    THEN IF Len(st.content) < MaxLines
         THEN {[st EXCEPT !.content = VecInsert(@, st.cursor_y + 1, line),
                         !.cursor_y = @ + 1]}
         ELSE {}
    ELSE \* the position is past end(): undefined
         {Crash(st)}
           \cup (IF st.cursor_y < MaxLines THEN {[st EXCEPT !.cursor_y = @ + 1]} ELSE {})

\* PasteLine with the insert position of line 102 off by one: above the cursor's line.
PasteLineAbove(st) ==
    IF RowOK(st) /\ Len(st.content) < MaxLines
    THEN {[st EXCEPT !.content = VecInsert(@, st.cursor_y, st.copy_buffer),
                    !.cursor_y = @ + 1]}
    ELSE {}

PasteLine(st) == InsertLineBelow(st, st.copy_buffer)

\* OpenLine as in editors whose open-line enters Insert mode.
OpenLineEntersInsert(st) ==
    {[s EXCEPT !.cursor_x = IF s.pc = "run" THEN 0 ELSE @,
               !.mode = IF s.pc = "run" THEN INSERT ELSE @] : s \in InsertLineBelow(st, <<>>)}

OpenLine(st) == {[s EXCEPT !.cursor_x = IF s.pc = "run" THEN 0 ELSE @] : s \in InsertLineBelow(st, <<>>)}

handleNormalMode(st, k) ==
    CASE k = KEY_UP    -> KeyUp(st)
      [] k = KEY_DOWN  -> KeyDown(st)
      [] k = KEY_LEFT  -> KeyLeft(st)
      [] k = KEY_RIGHT -> KeyRight(st)
      [] k = KEY_i     -> EnterInsert(st)
      [] k = KEY_d     -> DeleteLine(st)
      [] k = KEY_y     -> CopyLine(st)
      [] k = KEY_p     -> PasteLine(st)
      [] k = KEY_o     -> OpenLine(st)
      [] OTHER         -> {st}

-----------------------------------------------------------------------------
(* handleInsertMode, one operator per case of the switch *)

Escape(st) == {[st EXCEPT !.mode = NORMAL]}

\* Backspace with the erase position of line 121 off by one: the character under the cursor.
BackspaceAtCursor(st) ==
    IF st.cursor_x > 0 /\ RowOK(st)
    THEN IF st.cursor_x > Len(CurLine(st))
         THEN {Crash(st)}
         ELSE {[st EXCEPT !.content[st.cursor_y + 1] = StrErase(@, st.cursor_x),
                         !.cursor_x = @ - 1]}
    ELSE {st}

Backspace(st) ==
    IF st.cursor_x > 0
    THEN IF RowOK(st)
         THEN IF st.cursor_x - 1 > Len(CurLine(st))
              THEN {Crash(st)}   \* erase throws std::out_of_range
              ELSE {[st EXCEPT !.content[st.cursor_y + 1] = StrErase(@, st.cursor_x - 1),
                              !.cursor_x = @ - 1]}
         ELSE {Crash(st), [st EXCEPT !.cursor_x = @ - 1]}
    ELSE {st}

\* Newline without the truncation of line 127: the cursor's line keeps its tail.
NewlineKeepsTail(st) ==
    IF RowOK(st) /\ st.cursor_x <= Len(CurLine(st)) /\ Len(st.content) < MaxLines
    THEN {[st EXCEPT !.content = VecInsert(@, st.cursor_y + 1,
                                           StrSubstr(CurLine(st), st.cursor_x)),
                    !.cursor_y = @ + 1,
                    !.cursor_x = 0]}
    ELSE IF RowOK(st) /\ st.cursor_x <= Len(CurLine(st)) THEN {} ELSE {Crash(st)}

Newline(st) ==
    IF RowOK(st)
    THEN IF st.cursor_x > Len(CurLine(st))
         THEN {Crash(st)}   \* substr throws std::out_of_range
         ELSE IF Len(st.content) < MaxLines
              THEN LET rest == StrSubstr(CurLine(st), st.cursor_x)
                       grown == VecInsert(st.content, st.cursor_y + 1, rest)
                   IN  {[st EXCEPT !.content =
                                      [grown EXCEPT ![st.cursor_y + 1] = StrPrefix(@, st.cursor_x)],
                                   !.cursor_y = @ + 1,
                                   !.cursor_x = 0]}
              ELSE {}
    ELSE {Crash(st)}
           \cup (IF st.cursor_y < MaxLines
                 THEN {[st EXCEPT !.cursor_y = @ + 1, !.cursor_x = 0]} ELSE {})

InsertChar(st, c) ==
    IF IsPrintable(c)
    THEN IF RowOK(st)
         THEN IF st.cursor_x > Len(CurLine(st))
              THEN {Crash(st)}   \* insert throws std::out_of_range
              ELSE IF Len(CurLine(st)) < MaxLineLen
                   THEN {[st EXCEPT !.content[st.cursor_y + 1] = StrInsert(@, st.cursor_x, c),
                                   !.cursor_x = @ + 1]}
                   ELSE {}
         ELSE {Crash(st)}
                \cup (IF st.cursor_x < MaxLineLen THEN {[st EXCEPT !.cursor_x = @ + 1]} ELSE {})
    ELSE {st}

handleInsertMode(st, k) ==
    CASE k = KEY_ESC                      -> Escape(st)
      [] k \in {KEY_BACKSPACE, KEY_DEL}   -> Backspace(st)
      [] k = KEY_NL                       -> Newline(st)
      [] OTHER                            -> InsertChar(st, k)

-----------------------------------------------------------------------------
(* draw *)

\* Scroll with the test of lines 149/155 one column late.
ScrollLate(cursor, offset, max) ==
    IF cursor < offset THEN cursor
    ELSE IF cursor >= offset + max + 1 THEN cursor - max + 1
    ELSE offset

\* the scrolling logic, the same on both axes
Scroll(cursor, offset, max) ==
    IF cursor < offset THEN cursor
    ELSE IF cursor >= offset + max - 1 THEN cursor - max + 1
    ELSE offset

\* mvprintw takes the text as its format and is given no arguments: a '%'
\* that is not half of "%%" asks for an argument that is not there.
RECURSIVE FormatOK(_)
FormatOK(s) ==
    IF s = <<>> THEN TRUE
    ELSE IF Head(s) # PERCENT THEN FormatOK(Tail(s))
    ELSE IF Len(s) >= 2 /\ s[2] = PERCENT THEN FormatOK(Tail(Tail(s)))
    ELSE FALSE

\* the rows the drawing loop visits
DrawnRows(st, oy) ==
    {i \in 0..(Len(st.content) - 1) : i >= oy /\ i - oy < max_y - 1}

draw(st) ==
    LET oy == Scroll(st.cursor_y, st.offset_y, max_y)
        ox == Scroll(st.cursor_x, st.offset_x, max_x)
        scrolled == [st EXCEPT !.offset_y = oy, !.offset_x = ox]
    IN  IF \E i \in DrawnRows(st, oy) : ox > Len(st.content[i + 1])
        THEN {Crash(scrolled)}   \* substr throws std::out_of_range
        ELSE IF \A i \in DrawnRows(st, oy) :
                   FormatOK(StrSubstrN(st.content[i + 1], ox, max_x))
             THEN {scrolled}
             ELSE {Crash(scrolled), scrolled}   \* undefined: a fault, or a line of garbage on screen

-----------------------------------------------------------------------------
(* Constructor, run and saveFile *)

Put(st) ==
    /\ content' = st.content
    /\ copy_buffer' = st.copy_buffer
    /\ cursor_x' = st.cursor_x
    /\ cursor_y' = st.cursor_y
    /\ offset_x' = st.offset_x
    /\ offset_y' = st.offset_y
    /\ mode' = st.mode
    /\ pc' = st.pc

Editor(ok, bytes) ==
    [content |-> loadFile(ok, bytes), copy_buffer |-> <<>>,
     cursor_x |-> 0, cursor_y |-> 0, offset_x |-> 0, offset_y |-> 0,
     mode |-> NORMAL, pc |-> "run"]

Init ==
    /\ file_ok \in BOOLEAN
    /\ file_bytes \in SeqsUpTo(FileChars, MaxFileLen)
    /\ file_ok = FALSE => file_bytes = <<>>
    /\ out_ok = FALSE
    /\ max_y \in 2..MaxDim   \* a text row and the status row at least
    /\ max_x = max_y         \* the terminals of the model are square
    /\ \E st \in draw(Editor(file_ok, file_bytes)) :
         /\ content = st.content
         /\ copy_buffer = st.copy_buffer
         /\ cursor_x = st.cursor_x
         /\ cursor_y = st.cursor_y
         /\ offset_x = st.offset_x
         /\ offset_y = st.offset_y
         /\ mode = st.mode
         /\ pc = st.pc
    /\ ch = NO_KEY
    /\ saves = 0

\* LoopContinues with the quit key tested in Normal mode only.
LoopContinuesInInsert(st, k) == k # KEY_q \/ st.mode = INSERT

\* while ((ch = getch()) != 'q')
LoopContinues(st, k) == k # KEY_q

\* Dispatch sending the arrow keys to the Normal-mode handler in both modes.
DispatchArrowsAlways(st, k) ==
    IF st.mode = NORMAL \/ k \in {KEY_UP, KEY_DOWN, KEY_LEFT, KEY_RIGHT}
    THEN handleNormalMode(st, k) ELSE handleInsertMode(st, k)

\* the body of run()'s loop: dispatch on the mode, then draw
Dispatch(st, k) ==
    IF st.mode = NORMAL THEN handleNormalMode(st, k) ELSE handleInsertMode(st, k)

LoopBody(st, k) ==
    UNION {IF s.pc = "run" THEN draw(s) ELSE {s} : s \in Dispatch(st, k)}

NormalEvent ==
    /\ pc = "run"
    /\ mode = NORMAL
    /\ \E k \in ModelKeys(mode) :
         /\ LoopContinues(Cur, k)
         /\ ch' = k
         /\ \E st \in LoopBody(Cur, k) : Put(st)
    /\ UNCHANGED <<file_ok, file_bytes, out_ok, max_y, max_x, saves>>

InsertEvent ==
    /\ pc = "run"
    /\ mode = INSERT
    /\ \E k \in ModelKeys(mode) :
         /\ LoopContinues(Cur, k)
         /\ ch' = k
         /\ \E st \in LoopBody(Cur, k) : Put(st)
    /\ UNCHANGED <<file_ok, file_bytes, out_ok, max_y, max_x, saves>>

\* saveFile(): the bytes of the file after it
saveFile(ok, bytes, v) == IF ok THEN WriteLines(v) ELSE bytes

\* the loop ends, saveFile() runs, run() returns
Quit ==
    /\ pc = "run"
    /\ \E k \in ModelKeys(mode) :
         /\ ~LoopContinues(Cur, k)
         /\ ch' = k
    /\ out_ok' \in BOOLEAN
    /\ file_bytes' = saveFile(out_ok', file_bytes, content)
    /\ saves' = saves + 1
    /\ pc' = "exited"
    /\ UNCHANGED <<file_ok, max_y, max_x, content, copy_buffer, cursor_x, cursor_y,
                   offset_x, offset_y, mode>>

Next == NormalEvent \/ InsertEvent \/ Quit

Spec == Init /\ [][Next]_vars

TypeOK ==
    /\ pc \in {"run", "crashed", "exited"}
    /\ mode \in {NORMAL, INSERT}
    /\ cursor_x \in Nat /\ cursor_y \in Nat /\ offset_x \in Nat /\ offset_y \in Nat
    /\ saves \in 0..1

-----------------------------------------------------------------------------
(* Claims *)

\* The document the specification's load yields from a file.
SpecLoad(ok, bytes) ==
    IF ~ok \/ GetLines(bytes) = <<>> THEN << <<>> >> ELSE GetLines(bytes)

\* C1: after construction (no key read yet) the buffer is one empty line if
\* the file could not be opened or holds zero lines, and the file's lines in
\* order otherwise.
C1_LoadYieldsDocument == ch = NO_KEY => content = SpecLoad(file_ok, file_bytes)

\* C2: no step of the editor takes a buffer of at least one line to a buffer
\* of zero lines.
C2_BufferKeepsALine == [][Len(content) >= 1 => Len(content') >= 1]_vars

\* a delete-line has just cleared the only line of a document loaded with text
C2_Witness ==
    /\ ch = KEY_d /\ pc = "run" /\ mode = NORMAL
    /\ content = << <<>> >>
    /\ file_ok /\ file_bytes = <<KEY_y>>

\* C3: in every state where the cursor's line exists, 0 <= col <= len(Buffer[row]).
C3_ColWithinLine ==
    RowOK(Cur) => (0 <= cursor_x /\ cursor_x <= Len(CurLine(Cur)))

\* C4: in every state 0 <= row <= len(Buffer) - 1.
C4_RowWithinBuffer == 0 <= cursor_y /\ cursor_y <= Len(content) - 1

\* C5: after every viewport recompute the cursor is inside the text window:
\* rowOffset <= row <= rowOffset + visibleRows - 2 and
\* colOffset <= col <= colOffset + visibleCols - 2.
C5_ViewportInvariant ==
    (pc = "run" /\ RowOK(Cur)) =>
        /\ offset_y <= cursor_y /\ cursor_y <= offset_y + max_y - 2
        /\ offset_x <= cursor_x /\ cursor_x <= offset_x + max_x - 2

\* some line of the buffer holds the quit character
HasQ(v) == \E i \in 1..Len(v) : \E j \in 1..Len(v[i]) : v[i][j] = KEY_q

\* C6: a step that reads the quit key ends the loop and changes neither
\* buffer, cursor, clipboard nor mode, whatever the mode; and no step puts a
\* quit character into a buffer that holds none.
C6_QuitBeforeDispatch ==
    [][ /\ ch' = KEY_q =>
             /\ pc' = "exited"
             /\ UNCHANGED <<content, cursor_x, cursor_y, copy_buffer, mode>>
        /\ HasQ(content') => HasQ(content) ]_vars

\* the quit key was read in Insert mode, after a letter was typed into an empty file's buffer
C6_Witness ==
    /\ ch = KEY_q /\ pc = "exited" /\ mode = INSERT
    /\ file_ok /\ ~out_ok /\ file_bytes = <<>>
    /\ content = << <<KEY_y>> >> /\ cursor_x = 1

\* bytes before line i of v in a file that holds each line and a newline
RECURSIVE LineStart(_, _)
LineStart(v, i) == IF i = 1 THEN 0 ELSE LineStart(v, i - 1) + Len(v[i - 1]) + 1

\* b is the lines of v in order, each followed by one newline
IsSavedForm(b, v) ==
    /\ Len(b) = (IF v = <<>> THEN 0 ELSE LineStart(v, Len(v)) + Len(v[Len(v)]) + 1)
    /\ \A i \in 1..Len(v) :
         /\ SubSeq(b, LineStart(v, i) + 1, LineStart(v, i) + Len(v[i])) = v[i]
         /\ b[LineStart(v, i) + Len(v[i]) + 1] = KEY_NL

\* C7: the file is written and saveFile is called only by the step that reads
\* the quit key, that step is the last one of the run and the only call, and
\* what it writes is the buffer as it stood, each line followed by a newline.
C7_SaveOnceOnQuit ==
    [][ /\ (file_bytes' # file_bytes \/ saves' # saves \/ out_ok' # out_ok) => ch' = KEY_q
        /\ ch' = KEY_q => (saves = 0 /\ saves' = 1 /\ pc' = "exited")
        /\ pc # "exited"
        /\ (ch' = KEY_q /\ out_ok') => (IsSavedForm(file_bytes', content) /\ content' = content)
      ]_vars

\* the run has ended with a two-line buffer written to the file
C7_Witness ==
    /\ pc = "exited" /\ out_ok /\ saves = 1
    /\ Len(content) = 2 /\ content[2] # <<>>
    /\ file_bytes = content[1] \o <<KEY_NL>> \o content[2] \o <<KEY_NL>>

\* C8: loading the file that save wrote yields the buffer that was saved.
C8_SaveLoadRoundTrip ==
    (pc = "exited" /\ out_ok) => loadFile(TRUE, file_bytes) = content

TextKeys == {c \in {32, PERCENT, KEY_q + 1, 126} : IsPrintable(c)}

\* the states after the loop runs for key c and then, if it still runs, for key b
TwoKeys(st, c, b) ==
    UNION {LoopBody(s, b) : s \in {t \in LoopBody(st, c) : t.pc = "run"}}

\* C10: in Insert mode with col <= len(Buffer[row]), a printable character
\* other than the quit key followed by backspace leaves buffer, cursor and
\* clipboard as they were.
C10_TypeThenBackspace ==
    (pc = "run" /\ mode = INSERT /\ RowOK(Cur) /\ cursor_x <= Len(CurLine(Cur))) =>
        \A c \in TextKeys \ {KEY_q} : \A b \in {KEY_BACKSPACE, KEY_DEL} :
            \A s \in TwoKeys(Cur, c, b) :
                /\ s.content = content
                /\ s.cursor_x = cursor_x /\ s.cursor_y = cursor_y
                /\ s.copy_buffer = copy_buffer
                /\ s.mode = INSERT

\* backspace has just been handled in Insert mode, in the middle of a line,
\* and the state is one that typing a letter and backspace lead to
C10_Witness ==
    /\ ch = KEY_BACKSPACE /\ pc = "run" /\ mode = INSERT
    /\ RowOK(Cur) /\ cursor_x = 1 /\ Len(CurLine(Cur)) = 1
    /\ \E o \in 0..MaxLineLen :
         Cur \in TwoKeys([Cur EXCEPT !.offset_x = o], KEY_y, KEY_BACKSPACE)

ModeAfter(m, k) ==
    IF m = NORMAL /\ k = KEY_i THEN INSERT
    ELSE IF m = INSERT /\ k = KEY_ESC THEN NORMAL
    ELSE m

\* C12: the mode starts Normal, and every step leaves the mode the table
\* gives: Insert after enter-insert in Normal, Normal after escape in Insert,
\* unchanged after every other key (open-line and escape in Normal among
\* them).  The model types one letter in Insert mode: where it does, the
\* enter-insert key typed in its place leaves the mode Insert as well.
C12_ModeTable ==
    /\ mode = NORMAL
    /\ [][ /\ mode' = ModeAfter(mode, ch')
           /\ (mode = INSERT /\ ch' = KEY_y) =>
                \A s \in LoopBody(Cur, KEY_i) : s.mode = INSERT
         ]_vars

\* escape has just taken the editor back to Normal mode after typing
C12_Witness ==
    /\ ch = KEY_ESC /\ pc = "run" /\ mode = NORMAL
    /\ file_ok /\ file_bytes = <<>> /\ content = << <<KEY_y>> >> /\ cursor_x = 1

\* The Insert-mode key k makes the handler call a string operation on the
\* cursor's line at the cursor's column: insert for a printable code, substr
\* for newline, erase for backspace when the column is positive.
EditsAtCol(k, col) ==
    \/ IsPrintable(k)
    \/ k = KEY_NL
    \/ k \in {KEY_BACKSPACE, KEY_DEL} /\ col > 0

\* C13: every buffer mutation is invoked within its precondition.  Stated for
\* the Insert-mode edits on a cursor row that exists: whenever the handler is
\* about to insert, erase or split, the column is at most the length of the
\* cursor's line.
C13_EditsWithinPrecondition ==
    [][ (/\ pc = "run" /\ mode = INSERT /\ RowOK(Cur)
         /\ ch' # KEY_q /\ EditsAtCol(ch', cursor_x)) =>
            cursor_x <= Len(CurLine(Cur))
      ]_vars

\* C14: delete-line on an existing row r.  With more than one line, exactly
\* line r goes and the others keep content and order, and the row stays r
\* unless r was the last line, where it becomes r - 1; with one line, the line
\* becomes empty and the row stays 0.  Either way the column becomes 0 and the
\* clipboard and the mode stay as they were.
C14_DeleteLine ==
    [][ (pc = "run" /\ mode = NORMAL /\ ch' = KEY_d /\ RowOK(Cur)) =>
            /\ IF Len(content) > 1
               THEN /\ Len(content') = Len(content) - 1
                    /\ \A k \in 1..cursor_y : content'[k] = content[k]
                    /\ \A k \in (cursor_y + 2)..Len(content) : content'[k - 1] = content[k]
                    /\ cursor_y' = IF cursor_y = Len(content) - 1
                                   THEN cursor_y - 1 ELSE cursor_y
               ELSE /\ content' = << <<>> >>
                    /\ cursor_y' = 0
            /\ cursor_x' = 0
            /\ copy_buffer' = copy_buffer
            /\ mode' = NORMAL
            /\ pc' = "run"
      ]_vars

\* one of two lines has just been deleted with a clipboard in hand: the file
\* held one line, and a single line would have been emptied
C14_Witness ==
    /\ ch = KEY_d /\ pc = "run" /\ mode = NORMAL
    /\ file_ok /\ file_bytes = <<KEY_y>>
    /\ content = << <<KEY_y>> >> /\ copy_buffer = <<KEY_y>>
    /\ cursor_y = 0 /\ cursor_x = 0

\* C15: after a left or a right move in Normal mode, taken on an existing
\* cursor row, the column is at most the length of the cursor's line.
C15_HorizontalMoveClamps ==
    [][ (/\ pc = "run" /\ mode = NORMAL /\ ch' \in {KEY_LEFT, KEY_RIGHT}
         /\ RowOK(Cur) /\ pc' = "run") =>
            cursor_x' <= Len(content'[cursor_y' + 1])
      ]_vars

\* C16: a backspace handled in Insert mode on an existing row removes exactly
\* the character before the column and moves the column back by one when the
\* column is positive, changes nothing when the column is 0, and leaves the
\* line count, the other lines, the row and the mode as they were.
C16_Backspace ==
    [][ (/\ pc = "run" /\ mode = INSERT /\ ch' = KEY_BACKSPACE
         /\ RowOK(Cur) /\ pc' = "run") =>
            /\ IF cursor_x > 0
               THEN /\ content'[cursor_y + 1] =
                          SubSeq(CurLine(Cur), 1, cursor_x - 1)
                            \o SubSeq(CurLine(Cur), cursor_x + 1, Len(CurLine(Cur)))
                    /\ Len(content'[cursor_y + 1]) = Len(CurLine(Cur)) - 1
                    /\ cursor_x' = cursor_x - 1
               ELSE content' = content /\ cursor_x' = 0
            /\ Len(content') = Len(content)
            /\ \A k \in 1..Len(content) : k # cursor_y + 1 => content'[k] = content[k]
            /\ cursor_y' = cursor_y
            /\ mode' = INSERT
      ]_vars

\* C17: the clipboard starts empty; a step that is not copy-line in Normal
\* mode leaves it as it was (moves, delete-line, paste-line, open-line, mode
\* switches, every Insert-mode edit, the copy key typed as text), and
\* copy-line on an existing row sets it to the cursor's line of that moment.
C17_ClipboardFrame ==
    /\ copy_buffer = <<>>
    /\ [][ /\ ~(mode = NORMAL /\ ch' = KEY_y) => copy_buffer' = copy_buffer
           /\ (pc = "run" /\ mode = NORMAL /\ ch' = KEY_y /\ RowOK(Cur)) =>
                copy_buffer' = CurLine(Cur)
         ]_vars

\* the second line has just been copied; the first line is different
C17_Witness ==
    /\ ch = KEY_y /\ pc = "run" /\ mode = NORMAL
    /\ file_ok /\ content = << <<>>, <<KEY_y>> >>
    /\ cursor_y = 1 /\ copy_buffer = <<KEY_y>>

\* Keys of Insert mode that are neither escape, backspace, newline nor
\* printable, and the Normal-mode command keys.
IgnoredKeys == {KEY_UP, KEY_DOWN, KEY_LEFT, KEY_RIGHT, KEY_TAB}

CommandKeys == {KEY_d, KEY_y, KEY_p, KEY_o, KEY_i}

\* s is the current state with nothing of buffer, cursor, clipboard and mode changed
SameDocument(s) ==
    /\ s.content = content /\ s.cursor_y = cursor_y /\ s.cursor_x = cursor_x
    /\ s.copy_buffer = copy_buffer /\ s.mode = mode

\* s is the current state after k went into the text and did nothing else:
\* no line came or went, the row, the clipboard and the mode are as before,
\* and the cursor's line either holds k at the column, with the column one
\* further, or (the column being past the line's end) is as it was
TextOnly(s, k) ==
    /\ s.mode = INSERT /\ s.copy_buffer = copy_buffer
    /\ s.cursor_y = cursor_y /\ Len(s.content) = Len(content)
    /\ \A j \in 1..Len(content) : j # cursor_y + 1 => s.content[j] = content[j]
    /\ RowOK(Cur) =>
         IF cursor_x <= Len(CurLine(Cur))
         THEN /\ s.content[cursor_y + 1] =
                    SubSeq(CurLine(Cur), 1, cursor_x) \o <<k>>
                      \o SubSeq(CurLine(Cur), cursor_x + 1, Len(CurLine(Cur)))
              /\ s.cursor_x = cursor_x + 1
         ELSE s.content = content

\* C18: in Insert mode an arrow key or a control code changes nothing of
\* buffer, cursor, clipboard and mode, and a Normal-mode command key goes into
\* the text and does nothing else.  The model presses the up arrow and types
\* the copy key; where it does, the other ignored keys and the other command
\* keys are tried in their place.
C18_InsertIgnoresAndTypes ==
    [][ /\ (pc = "run" /\ mode = INSERT /\ ch' = KEY_UP) =>
              /\ SameDocument(Cur')
              /\ \A k \in IgnoredKeys : \A s \in LoopBody(Cur, k) : SameDocument(s)
        /\ (pc = "run" /\ mode = INSERT /\ ch' = KEY_y) =>
              /\ TextOnly(Cur', KEY_y)
              /\ \A k \in CommandKeys : \A s \in LoopBody(Cur, k) : TextOnly(s, k)
      ]_vars

\* the copy key has just been typed on the second of two lines, behind the
\* cursor, with an empty clipboard
C18_Witness ==
    /\ ch = KEY_y /\ pc = "run" /\ mode = INSERT
    /\ file_ok /\ file_bytes = <<KEY_NL>>
    /\ content = << <<>>, <<KEY_y>> >> /\ cursor_y = 1 /\ cursor_x = 1
    /\ copy_buffer = <<>>

\* C19: every render pass succeeds.  Stated for the pass that follows a
\* handled key which left the cursor on an existing row, at a column within
\* its line: draw does not end the program.
C19_RenderSucceeds ==
    [][ (pc = "run" /\ ch' # KEY_q) =>
            \A s \in Dispatch(Cur, ch') :
                (s.pc = "run" /\ RowOK(s) /\ s.cursor_x <= Len(CurLine(s))) =>
                    \A t \in draw(s) : t.pc = "run"
      ]_vars

\* where move() of line 170 puts the hardware cursor, and the offsets, in range
CursorOnScreen ==
    /\ offset_y >= 0 /\ offset_x >= 0
    /\ cursor_y - offset_y \in 0..(max_y - 1)
    /\ cursor_x - offset_x \in 0..(max_x - 1)

\* C20: in every state the offsets are not negative and the hardware cursor
\* lies within the terminal's rows and columns, and a step that leaves the
\* cursor with offset <= cursor < offset + size - 1 on an axis leaves that
\* axis's offset as it was.
C20_OffsetsFollowCursor ==
    /\ CursorOnScreen
    /\ [][ /\ CursorOnScreen'
           /\ (offset_y <= cursor_y' /\ cursor_y' < offset_y + max_y - 1) =>
                offset_y' = offset_y
           /\ (offset_x <= cursor_x' /\ cursor_x' < offset_x + max_x - 1) =>
                offset_x' = offset_x
         ]_vars

\* the view has scrolled right by one on a line of two, and a move left has
\* just kept the cursor inside the window: the offset stayed
C20_Witness ==
    /\ ch = KEY_LEFT /\ pc = "run" /\ max_x = 2
    /\ content = << <<KEY_y, KEY_y>> >>
    /\ cursor_x = 1 /\ offset_x = 1

====
